---------------------------- MODULE Spec2Model ----------------------------
(***************************************************************************)
(* Model of streamlit_app.py: a Streamlit script that extracts the tables  *)
(* and images of an uploaded PDF and offers them as an Excel workbook and  *)
(* a ZIP archive.                                                          *)
(*                                                                         *)
(* The libraries (tabula, pdfplumber, PIL, pandas, openpyxl, zipfile) are  *)
(* the environment.  Each library call that the script wraps in a try is   *)
(* given an outcome by the input: a call either succeeds with its result   *)
(* or raises.  wb.save and the ExcelWriter are taken to succeed.           *)
(***************************************************************************)
EXTENDS Integers, Sequences, FiniteSets

VARIABLES
    pc,         \* position of the script run
    pdf,        \* the uploaded PDF, as pdfplumber sees it
    tabula,     \* what tabula.read_pdf does with the uploaded PDF
    opts,       \* the three checkboxes and the button
    tables,     \* main(): tables
    images,     \* main(): images
    files,      \* temporary files that exist on disk
    workbook,   \* sheets of the workbook at excel_path (<<>>: none written)
    zip,        \* entries of the archive at zip_path
    downloads,  \* download buttons rendered in this run
    ui,         \* messages shown to the user, in order
    caught      \* exceptions caught by an except clause, in order

vars == <<pc, pdf, tabula, opts, tables, images, files, workbook, zip,
          downloads, ui, caught>>

----------------------------------------------------------------------------
(* Bounds of the model. *)

MaxPages == 2       \* most pages of a PDF
MaxImgs == 2        \* most embedded images of a PDF (over all its pages)
MaxTables == 2      \* most tables tabula finds
MaxExcelImgs == 3   \* longest image list handed to the workbook writer alone

----------------------------------------------------------------------------
(* Formatting: str(n) of a natural number, as an f-string renders it. *)

Digit(d) ==
    CASE d = 0 -> "0" [] d = 1 -> "1" [] d = 2 -> "2" [] d = 3 -> "3"
      [] d = 4 -> "4" [] d = 5 -> "5" [] d = 6 -> "6" [] d = 7 -> "7"
      [] d = 8 -> "8" [] d = 9 -> "9"

RECURSIVE ToStr(_)
ToStr(n) == IF n < 10 THEN Digit(n) ELSE ToStr(n \div 10) \o Digit(n % 10)

----------------------------------------------------------------------------
(* User-visible messages and the record of caught exceptions. *)

Msg(level, text) == [level |-> level, text |-> text]

\* st.<level>(text)
Say(io, level, text) == [io EXCEPT !.ui = Append(@, Msg(level, text))]

\* An except clause at source line `line` ran and emitted `msgs`; the caught
\* entry records the stretch of the message log the handler wrote.
Except(io, line, msgs) ==
    [io EXCEPT !.ui = @ \o msgs,
               !.caught = Append(@, [line |-> line,
                                     from |-> Len(io.ui),
                                     to |-> Len(io.ui) + Len(msgs)])]

----------------------------------------------------------------------------
(* The PDF.  A page either parses or not (page.images raises); a page that *)
(* parses lists its embedded images, each of which crops and rasterizes or *)
(* raises, and has visual content (figures, curves, rects) or not;         *)
(* page.to_image of the whole page succeeds or raises.                     *)

RECURSIVE SumLen(_)
SumLen(ps) == IF ps = <<>> THEN 0 ELSE Len(Head(ps).imgs) + SumLen(Tail(ps))

ImgLists == UNION {[1..n -> BOOLEAN] : n \in 0..MaxImgs}

PageTypes ==
    {[parse |-> TRUE, imgs |-> l, visual |-> v, render |-> r] :
        l \in ImgLists, v \in BOOLEAN, r \in BOOLEAN}
    \cup {[parse |-> FALSE, imgs |-> <<>>, visual |-> FALSE, render |-> r] :
        r \in BOOLEAN}

PDFs ==
    {[readable |-> FALSE, pages |-> <<>>]}
    \cup {[readable |-> TRUE, pages |-> ps] :
            ps \in {q \in UNION {[1..n -> PageTypes] : n \in 0..MaxPages} :
                        SumLen(q) <= MaxImgs}}

\* Image payloads: the PNG encoding of a rendered region of a page (crop 0 is
\* the whole page, crop i+1 the bounding box of embedded image i).
PNG(page, crop) == [fmt |-> "PNG", page |-> page, crop |-> crop]

\* A payload PIL cannot identify.
Corrupt == [fmt |-> "?", page |-> 0, crop |-> 0]

\* Tables: a DataFrame is identified by its content.
TableVals == {"dfA", "dfB"}

TableLists == UNION {[1..n -> TableVals] : n \in 0..MaxTables}

\* read_pdf returns a list of DataFrames or raises.
TabulaOutcomes ==
    {[ok |-> FALSE, tables |-> <<>>]}
    \cup {[ok |-> TRUE, tables |-> t] : t \in TableLists}

----------------------------------------------------------------------------
(* extract_tables_from_pdf *)

extract_tables_from_pdf(tab, io) ==
    IF tab.ok
    THEN [result |-> tab.tables, io |-> io]
    ELSE [result |-> <<>>,
          io |-> Except(io, 19, <<Msg("error", "Error extracting tables")>>)]

----------------------------------------------------------------------------
(* extract_images_from_pdf *)

\* Variant: the page number of the filename left 0-based.
EmbeddedFilename_ZeroBased(page_num, img_index) ==
    "image_page" \o ToStr(page_num) \o "_" \o ToStr(img_index) \o ".png"

EmbeddedFilename(page_num, img_index) ==
    "image_page" \o ToStr(page_num + 1) \o "_" \o ToStr(img_index) \o ".png"

EmbeddedRecord(page_num, img_index) ==
    [page |-> page_num + 1,
     index |-> img_index,
     bytes |-> PNG(page_num + 1, img_index + 1),
     ext |-> "png",
     filename |-> EmbeddedFilename(page_num, img_index)]

\* Variant: the fallback reuses the filename of the page pass.
VisualFilename_AsPage(page_num) == "page_" \o ToStr(page_num + 1) \o ".png"

VisualFilename(page_num) ==
    "page_" \o ToStr(page_num + 1) \o "_visual_content.png"

VisualRecord(page_num) ==
    [page |-> page_num + 1,
     index |-> 0,
     bytes |-> PNG(page_num + 1, 0),
     ext |-> "png",
     filename |-> VisualFilename(page_num)]

\* except Exception as img_error: st.warning(...); continue
ImageFailed(acc, page_num, img_index) ==
    [acc EXCEPT !.io = Except(@, 55,
        <<Msg("warning", "Could not extract image " \o ToStr(img_index)
                          \o " from page " \o ToStr(page_num + 1))>>)]

\* Variant: the except clause leaves the image loop (break for continue).
RECURSIVE ImageLoop_Break(_, _, _, _)
ImageLoop_Break(page_num, imgs, img_index, acc) ==
    IF img_index >= Len(imgs)
    THEN acc
    ELSE IF imgs[img_index + 1]
         THEN ImageLoop_Break(page_num, imgs, img_index + 1,
                [acc EXCEPT !.images =
                                Append(@, EmbeddedRecord(page_num, img_index))])
         ELSE ImageFailed(acc, page_num, img_index)

\* for img_index, img_obj in enumerate(page.images): try ... except ...
RECURSIVE ImageLoop(_, _, _, _)
ImageLoop(page_num, imgs, img_index, acc) ==
    IF img_index >= Len(imgs)
    THEN acc
    ELSE ImageLoop(page_num, imgs, img_index + 1,
            IF imgs[img_index + 1]
            THEN [acc EXCEPT !.images =
                                Append(@, EmbeddedRecord(page_num, img_index))]
            ELSE ImageFailed(acc, page_num, img_index))

\* except Exception as page_error: continue
FallbackFailed(acc, page_num) == [acc EXCEPT !.io = Except(@, 81, <<>>)]

\* Variant: the fallback without its test that the page lists no images.
Fallback_Unguarded(page_num, page, acc) ==
    IF page.visual
    THEN IF page.render
         THEN [acc EXCEPT !.images = Append(@, VisualRecord(page_num))]
         ELSE FallbackFailed(acc, page_num)
    ELSE acc

\* The second try of the page loop: the whole page as an image when the
\* page lists no images and has visual content.
Fallback(page_num, page, acc) ==
    IF page.imgs = <<>>
    THEN IF page.visual
         THEN IF page.render
              THEN [acc EXCEPT !.images = Append(@, VisualRecord(page_num))]
              ELSE FallbackFailed(acc, page_num)
         ELSE acc
    ELSE acc

\* One iteration of: for page_num, page in enumerate(pdf.pages)
PageBody(page_num, page, acc) ==
    Fallback(page_num, page,
        IF page.imgs # <<>>
        THEN ImageLoop(page_num, page.imgs, 0, acc)
        ELSE acc)

\* The page loop; a page that does not parse raises out of it.
RECURSIVE PageLoop(_, _, _)
PageLoop(pages, page_num, acc) ==
    IF page_num >= Len(pages)
    THEN acc
    ELSE IF ~pages[page_num + 1].parse
         THEN [acc EXCEPT !.raised = TRUE]
         ELSE PageLoop(pages, page_num + 1,
                       PageBody(page_num, pages[page_num + 1], acc))

\* except Exception as e: st.error(...); return []
ImagesFailed(io) ==
    [result |-> <<>>,
     io |-> Except(io, 85, <<Msg("error", "Error extracting images")>>)]

extract_images_from_pdf(p, io) ==
    IF ~p.readable
    THEN ImagesFailed(io)
    ELSE LET acc == PageLoop(p.pages, 0,
                        [images |-> <<>>, io |-> io, raised |-> FALSE])
         IN  IF acc.raised
             THEN ImagesFailed(acc.io)
             ELSE [result |-> acc.images, io |-> acc.io]

----------------------------------------------------------------------------
(* extract_images_alternative_method *)

PageFilename(page_num) == "page_" \o ToStr(page_num + 1) \o ".png"

PageRecord(page_num) ==
    [page |-> page_num + 1,
     index |-> 0,
     bytes |-> PNG(page_num + 1, 0),
     ext |-> "png",
     filename |-> PageFilename(page_num)]

\* except Exception as page_error: st.warning(...); continue
PageFailed(acc, page_num) ==
    [acc EXCEPT !.io = Except(@, 112,
        <<Msg("warning", "Could not convert page " \o ToStr(page_num + 1)
                          \o " to image")>>)]

RECURSIVE AltPageLoop(_, _, _)
AltPageLoop(pages, page_num, acc) ==
    IF page_num >= Len(pages)
    THEN acc
    ELSE AltPageLoop(pages, page_num + 1,
            IF pages[page_num + 1].render
            THEN [acc EXCEPT !.images = Append(@, PageRecord(page_num))]
            ELSE PageFailed(acc, page_num))

\* except Exception as e: st.error(...); return []
AlternativeFailed(io) ==
    [result |-> <<>>,
     io |-> Except(io, 118,
                <<Msg("error", "Error in alternative image extraction")>>)]

extract_images_alternative_method(p, io) ==
    IF ~p.readable
    THEN AlternativeFailed(io)
    ELSE LET acc == AltPageLoop(p.pages, 0,
                        [images |-> <<>>, io |-> io, raised |-> FALSE])
         IN  [result |-> acc.images, io |-> acc.io]

----------------------------------------------------------------------------
(* Small maps with overwrite: the cells of a worksheet, the files of a     *)
(* directory.                                                              *)

Put(m, key, value) ==
    {e \in m : e.key # key} \cup {[key |-> key, value |-> value]}

Has(m, key) == \E e \in m : e.key = key

Get(m, key) == (CHOOSE e \in m : e.key = key).value

\* PIL identifies the payload as an image.
PILOpens(bytes) == bytes.fmt = "PNG"

----------------------------------------------------------------------------
(* create_excel_with_tables_and_images *)

Sheet(title, frame, pics, cells) ==
    [title |-> title, frame |-> frame, pics |-> pics, cells |-> cells]

\* Variant: the sheet number left 0-based.
TableSheetName_ZeroBased(i) == "Table_" \o ToStr(i)

TableSheetName(i) == "Table_" \o ToStr(i + 1)

\* for i, table in enumerate(tables): table.to_excel(writer, sheet_name=...)
TableSheets(tabs) ==
    [k \in 1..Len(tabs) |-> Sheet(TableSheetName(k - 1), tabs[k], <<>>, {})]

\* The sheet written when there are no tables.
PlaceholderSheet == Sheet("No_Tables", "No tables found in PDF", <<>>, {})

\* Variant: the placeholder written whether or not there are tables.
WriteTables_AlwaysPlaceholder(tabs) == <<PlaceholderSheet>> \o TableSheets(tabs)

\* Variant: no placeholder written when there are no tables.
WriteTables_NoPlaceholder(tabs) == TableSheets(tabs)

\* with pd.ExcelWriter(excel_path) as writer: if tables: ... else: ...
WriteTables(tabs) ==
    IF tabs # <<>> THEN TableSheets(tabs) ELSE <<PlaceholderSheet>>

Caption(img_data) ==
    "Page " \o ToStr(img_data.page) \o ", Image " \o ToStr(img_data.index + 1)

\* row += 20
NextRow(row) == row + 20

\* The body of the try: the picture at A{row}, its caption at E{row}, its
\* filename at E{row + 1}, then the row moves on.
InsertImage(st, img_data, data) ==
    [st EXCEPT
        !.pics = Append(@, [anchor |-> "A" \o ToStr(st.row), data |-> data]),
        !.cells = Put(Put(@, "E" \o ToStr(st.row), Caption(img_data)),
                      "E" \o ToStr(st.row + 1), img_data.filename),
        !.row = NextRow(@)]

\* Variant: the row moves on for an image that was not inserted.
InsertFailed_SkipsRow(st, img_data) ==
    [st EXCEPT !.row = NextRow(@),
               !.io = Except(@, 168,
        <<Msg("warning", "Could not add image " \o img_data.filename
                          \o " to Excel")>>)]

\* except Exception as e: st.warning(...)
InsertFailed(st, img_data) ==
    [st EXCEPT !.io = Except(@, 168,
        <<Msg("warning", "Could not add image " \o img_data.filename
                          \o " to Excel")>>)]

\* for img_data in images: write the payload to temp_dir, then try to
\* insert the picture read back from that path.
RECURSIVE InsertLoop(_, _, _)
InsertLoop(imgs, k, st) ==
    IF k > Len(imgs)
    THEN st
    ELSE LET img_data == imgs[k]
             dir == Put(st.dir, img_data.filename, img_data.bytes)
             st1 == [st EXCEPT !.dir = dir]
             data == Get(dir, img_data.filename)
         IN  InsertLoop(imgs, k + 1,
                IF PILOpens(data)
                THEN InsertImage(st1, img_data, data)
                ELSE InsertFailed(st1, img_data))

\* if images: wb = load_workbook(...); ws = wb.create_sheet(...); ...
\* wb.save runs after the temporary directory with the picture files is
\* removed; whether openpyxl still reads those files at save time is the
\* library's matter, and the save is taken to succeed.
AddImages(sheets, imgs, io) ==
    IF imgs # <<>>
    THEN LET st == InsertLoop(imgs, 1,
                     [row |-> 1, pics |-> <<>>, cells |-> {}, dir |-> {},
                      io |-> io])
         IN  [result |-> Append(sheets,
                            Sheet("Extracted_Images", "", st.pics, st.cells)),
              io |-> st.io]
    ELSE [result |-> sheets, io |-> io]

create_excel_with_tables_and_images(tabs, imgs, io) ==
    AddImages(WriteTables(tabs), imgs, io)

----------------------------------------------------------------------------
(* create_images_zip *)

ZipEntry(img_data) == [name |-> img_data.filename, data |-> img_data.bytes]

\* for img_data in images: zip_file.writestr(filename, bytes)
create_images_zip(imgs) == [k \in 1..Len(imgs) |-> ZipEntry(imgs[k])]

\* ZipFile.namelist()
NameList(z) == [k \in 1..Len(z) |-> z[k].name]

\* ZipFile.read(name): the last entry written under the name.
ZipRead(z, name) ==
    LET ks == {k \in 1..Len(z) : z[k].name = name}
    IN  z[CHOOSE k \in ks : \A j \in ks : j <= k].data

----------------------------------------------------------------------------
(* main(): one run of the script, top to bottom. *)

Opts == [tables : BOOLEAN, images : BOOLEAN, pages : BOOLEAN,
         button : BOOLEAN]

NoneSelected(o) == ~o.tables /\ ~o.images /\ ~o.pages

NoPDF == [readable |-> FALSE, pages |-> <<>>]

NoTabula == [ok |-> FALSE, tables |-> <<>>]

NoOpts == [tables |-> FALSE, images |-> FALSE, pages |-> FALSE,
           button |-> FALSE]

IO == [ui |-> ui, caught |-> caught]

\* The message log once the upload is saved: st.success(...)
UploadIO ==
    Say([ui |-> <<>>, caught |-> <<>>], "success", "PDF uploaded successfully")

\* if extract_tables: ...
TablesPass(o, tab, io) ==
    IF o.tables
    THEN LET r == extract_tables_from_pdf(tab, Say(io, "info", "Extracting tables..."))
         IN  [result |-> r.result,
              io |-> IF r.result # <<>>
                     THEN Say(r.io, "success",
                              "Found " \o ToStr(Len(r.result)) \o " tables")
                     ELSE Say(r.io, "warning", "No tables found")]
    ELSE [result |-> <<>>, io |-> io]

\* if extract_images: ...
ImagesPass(o, p, io) ==
    IF o.images
    THEN LET r == extract_images_from_pdf(p, Say(io, "info", "Extracting images..."))
         IN  [result |-> r.result,
              io |-> IF r.result # <<>>
                     THEN Say(r.io, "success",
                              "Found " \o ToStr(Len(r.result)) \o " images")
                     ELSE Say(r.io, "warning", "No embedded images found")]
    ELSE [result |-> <<>>, io |-> io]

\* if extract_pages: ... images.extend(page_images)
PagesPass(o, p, imgs, io) ==
    IF o.pages
    THEN LET r == extract_images_alternative_method(p,
                      Say(io, "info", "Converting pages to images..."))
         IN  IF r.result # <<>>
             THEN [result |-> imgs \o r.result,
                   io |-> Say(r.io, "success",
                              "Converted " \o ToStr(Len(r.result))
                              \o " pages to images")]
             ELSE [result |-> imgs,
                   io |-> Say(r.io, "warning",
                              "Could not convert pages to images")]
    ELSE [result |-> imgs, io |-> io]

\* The image previews: Image.open of each payload, st.error when it raises.
RECURSIVE Preview(_, _, _)
Preview(imgs, k, io) ==
    IF k > Len(imgs)
    THEN io
    ELSE Preview(imgs, k + 1,
            IF PILOpens(imgs[k].bytes)
            THEN io
            ELSE Except(io, 285, <<Msg("error", "Could not display image")>>))

\* uploaded_file is None: nothing is saved and nothing is processed.
NoUpload ==
    /\ pc = "start"
    /\ pc' = "end"
    /\ UNCHANGED <<pdf, tabula, opts, tables, images, files, workbook, zip,
                   downloads, ui, caught>>

\* The upload is saved to a temporary file.
Upload ==
    /\ pc = "start"
    /\ \E p \in PDFs, t \in TabulaOutcomes :
          /\ pdf' = p
          /\ tabula' = t
    /\ files' = files \cup {"pdf"}
    /\ ui' = UploadIO.ui
    /\ pc' = "options"
    /\ UNCHANGED <<opts, tables, images, workbook, zip, downloads, caught>>

\* The checkboxes and the button; with the button pressed and no option
\* selected the script warns and returns.
Options ==
    /\ pc = "options"
    /\ \E o \in Opts :
          /\ opts' = o
          /\ IF ~o.button
             THEN pc' = "cleanup" /\ ui' = ui
             ELSE IF NoneSelected(o)
                  THEN /\ pc' = "end"
                       /\ ui' = Append(ui, Msg("warning",
                              "Please select at least one extraction option."))
                  ELSE pc' = "tables" /\ ui' = ui
    /\ UNCHANGED <<pdf, tabula, tables, images, files, workbook, zip,
                   downloads, caught>>

ExtractTables ==
    /\ pc = "tables"
    /\ LET r == TablesPass(opts, tabula, IO)
       IN  /\ tables' = r.result
           /\ ui' = r.io.ui
           /\ caught' = r.io.caught
    /\ pc' = "images"
    /\ UNCHANGED <<pdf, tabula, opts, images, files, workbook, zip, downloads>>

ExtractImages ==
    /\ pc = "images"
    /\ LET r == ImagesPass(opts, pdf, IO)
       IN  /\ images' = r.result
           /\ ui' = r.io.ui
           /\ caught' = r.io.caught
    /\ pc' = "pages"
    /\ UNCHANGED <<pdf, tabula, opts, tables, files, workbook, zip, downloads>>

ExtractPages ==
    /\ pc = "pages"
    /\ LET r == PagesPass(opts, pdf, images, IO)
       IN  /\ images' = r.result
           /\ ui' = r.io.ui
           /\ caught' = r.io.caught
    /\ pc' = "results"
    /\ UNCHANGED <<pdf, tabula, opts, tables, files, workbook, zip, downloads>>

\* if tables or images: the previews, then the workbook is written to a
\* temporary file; else st.error(...)
Results ==
    /\ pc = "results"
    /\ IF tables # <<>> \/ images # <<>>
       THEN LET r == create_excel_with_tables_and_images(tables, images,
                        Say(Preview(images, 1, IO), "info",
                            "Creating Excel file with tables and images..."))
            IN  /\ workbook' = r.result
                /\ ui' = r.io.ui
                /\ caught' = r.io.caught
                /\ files' = files \cup {"xlsx"}
                /\ pc' = "excel"
       ELSE /\ ui' = Append(ui, Msg("error",
                                    "No tables or images found in the PDF"))
            /\ pc' = "cleanup"
            /\ UNCHANGED <<workbook, caught, files>>
    /\ UNCHANGED <<pdf, tabula, opts, tables, images, zip, downloads>>

\* The workbook is read back into the download button and unlinked.
DownloadExcel ==
    /\ pc = "excel"
    /\ downloads' = downloads \cup {"xlsx"}
    /\ files' = files \ {"xlsx"}
    /\ pc' = "zip"
    /\ UNCHANGED <<pdf, tabula, opts, tables, images, workbook, zip, ui,
                   caught>>

\* if images: the archive is written to a temporary file.
CreateZip ==
    /\ pc = "zip"
    /\ IF images # <<>>
       THEN /\ zip' = create_images_zip(images)
            /\ files' = files \cup {"zip"}
            /\ ui' = Append(ui, Msg("info", "Creating ZIP file with images..."))
            /\ pc' = "zipped"
       ELSE /\ pc' = "cleanup"
            /\ UNCHANGED <<zip, files, ui>>
    /\ UNCHANGED <<pdf, tabula, opts, tables, images, workbook, downloads,
                   caught>>

\* The archive is read back into the download button and unlinked.
DownloadZip ==
    /\ pc = "zipped"
    /\ downloads' = downloads \cup {"zip"}
    /\ files' = files \ {"zip"}
    /\ pc' = "cleanup"
    /\ UNCHANGED <<pdf, tabula, opts, tables, images, workbook, zip, ui,
                   caught>>

\* os.unlink(pdf_path), the last statement of the upload branch.
Cleanup ==
    /\ pc = "cleanup"
    /\ files' = files \ {"pdf"}
    /\ pc' = "end"
    /\ UNCHANGED <<pdf, tabula, opts, tables, images, workbook, zip,
                   downloads, ui, caught>>

Init ==
    /\ pc = "start"
    /\ pdf = NoPDF
    /\ tabula = NoTabula
    /\ opts = NoOpts
    /\ tables = <<>>
    /\ images = <<>>
    /\ files = {}
    /\ workbook = <<>>
    /\ zip = <<>>
    /\ downloads = {}
    /\ ui = <<>>
    /\ caught = <<>>

Next ==
    \/ NoUpload
    \/ Upload
    \/ Options
    \/ ExtractTables
    \/ ExtractImages
    \/ ExtractPages
    \/ Results
    \/ DownloadExcel
    \/ CreateZip
    \/ DownloadZip
    \/ Cleanup

Spec == Init /\ [][Next]_vars

----------------------------------------------------------------------------
(* The image passes of a run: main() from the image pass on, entered in    *)
(* the states the table pass leaves, for every PDF and every selection of  *)
(* the checkboxes that gets past the button.                               *)

OneTable == [ok |-> TRUE, tables |-> <<"dfA">>]

InitExtract ==
    /\ pc = "images"
    /\ pdf \in PDFs
    /\ opts \in {o \in Opts : o.button /\ ~NoneSelected(o)}
    /\ tabula = IF opts.tables THEN OneTable ELSE NoTabula
    /\ tables = TablesPass(opts, tabula, UploadIO).result
    /\ ui = TablesPass(opts, tabula, UploadIO).io.ui
    /\ caught = TablesPass(opts, tabula, UploadIO).io.caught
    /\ images = <<>>
    /\ files = {"pdf"}
    /\ workbook = <<>>
    /\ zip = <<>>
    /\ downloads = {}

NextExtract ==
    \/ ExtractImages
    \/ ExtractPages
    \/ Results
    \/ DownloadExcel
    \/ CreateZip

SpecExtract == InitExtract /\ [][NextExtract]_vars

----------------------------------------------------------------------------
(* create_excel_with_tables_and_images on its own, for every table list    *)
(* and every image list over a pool of image records.                      *)

ImgPool ==
    {EmbeddedRecord(0, 0),
     PageRecord(1),
     [EmbeddedRecord(0, 1) EXCEPT !.bytes = Corrupt]}

ImageLists == UNION {[1..n -> ImgPool] : n \in 0..MaxExcelImgs}

InitExcel ==
    /\ pc = "call"
    /\ tables \in TableLists
    /\ images \in ImageLists
    /\ pdf = NoPDF
    /\ tabula = NoTabula
    /\ opts = NoOpts
    /\ files = {}
    /\ workbook = <<>>
    /\ zip = <<>>
    /\ downloads = {}
    /\ ui = <<>>
    /\ caught = <<>>

CallCreateExcel ==
    /\ pc = "call"
    /\ LET r == create_excel_with_tables_and_images(tables, images, IO)
       IN  /\ workbook' = r.result
           /\ ui' = r.io.ui
           /\ caught' = r.io.caught
    /\ files' = files \cup {"xlsx"}
    /\ pc' = "returned"
    /\ UNCHANGED <<pdf, tabula, opts, tables, images, zip, downloads>>

NextExcel == CallCreateExcel

SpecExcel == InitExcel /\ [][NextExcel]_vars

----------------------------------------------------------------------------
(* Properties of a run of main(), checked under Spec. *)

\* C1: at the end of a run of main() in which a PDF was uploaded, every
\* temporary file created during the run (the PDF copy, the workbook, the
\* archive) has been deleted, on every exit path.
C1_TempFilesDeleted == pc = "end" => files = {}

\* C7: every exception caught during extraction or workbook assembly is
\* surfaced: the except clause that caught it emitted an st.error or an
\* st.warning.
C7_FailuresSurfaced ==
    \A k \in DOMAIN caught :
        \E j \in (caught[k].from + 1)..caught[k].to :
            ui[j].level \in {"error", "warning"}

----------------------------------------------------------------------------
(* Properties of create_excel_with_tables_and_images, checked under        *)
(* SpecExcel.                                                              *)

Titles(wb) == {wb[j].title : j \in DOMAIN wb}

\* C2: a non-empty table list of length N gives exactly N table sheets,
\* Table_1 .. Table_N, sheet Table_k holding the k-th table, whatever the
\* image list; the only other sheet is the image sheet.
C2_TableSheets ==
    (pc = "returned" /\ tables # <<>>) =>
        LET N == Len(tables)
        IN  /\ Len(workbook) = N + (IF images # <<>> THEN 1 ELSE 0)
            /\ \A k \in 1..N :
                  /\ workbook[k].title = "Table_" \o ToStr(k)
                  /\ workbook[k].frame = tables[k]
            /\ \A j \in (N + 1)..Len(workbook) :
                  workbook[j].title = "Extracted_Images"

C2_Witness ==
    /\ pc = "returned"
    /\ Len(tables) = 2
    /\ tables[1] # tables[2]
    /\ images # <<>>

\* C3 as claimed: a workbook made from an empty table list consists of one
\* sheet, the placeholder No_Tables, and the placeholder is present only
\* when the table list is empty.
C3_Original ==
    pc = "returned" =>
        /\ tables = <<>> =>
              (Len(workbook) = 1 /\ workbook[1].title = "No_Tables")
        /\ "No_Tables" \in Titles(workbook) => tables = <<>>

\* C3 as amended: a workbook made from an empty table list holds the
\* placeholder No_Tables as its first sheet and no table sheet; its only
\* other sheet is Extracted_Images, present exactly when the image list is
\* not empty; the placeholder is present only when the table list is empty.
C3_Placeholder ==
    pc = "returned" =>
        /\ tables = <<>> =>
              /\ workbook[1].title = "No_Tables"
              /\ workbook[1].frame = "No tables found in PDF"
              /\ Len(workbook) = (IF images # <<>> THEN 2 ELSE 1)
              /\ \A j \in 2..Len(workbook) :
                    workbook[j].title = "Extracted_Images"
        /\ "No_Tables" \in Titles(workbook) => tables = <<>>

C3_Witness ==
    /\ pc = "returned"
    /\ tables = <<>>
    /\ images # <<>>
    /\ Len(workbook) = 2

\* C8: the workbook returned always has at least one sheet, for every table
\* list and every image list; with an empty image list the image step is
\* skipped and there is no Extracted_Images sheet.
C8_AtLeastOneSheet ==
    pc = "returned" =>
        /\ Len(workbook) >= 1
        /\ images = <<>> =>
              /\ "Extracted_Images" \notin Titles(workbook)
              /\ \A j \in DOMAIN workbook : workbook[j].pics = <<>>
              /\ caught = <<>>

C8_Witness ==
    /\ pc = "returned"
    /\ tables = <<>>
    /\ images = <<>>
    /\ Len(workbook) = 1

\* C10: the k-th image that is inserted is anchored at A(1 + 20*(k-1)) of
\* Extracted_Images, its caption "Page p, Image index+1" in column E of that
\* row and its filename in column E of the next row; an image whose
\* insertion fails takes no row and does not stop the images after it;
\* anchors do not overlap and follow the order of the image list.
C10_ImageRows ==
    (pc = "returned" /\ images # <<>>) =>
        LET ws == workbook[Len(workbook)]
            ins == SelectSeq(images, LAMBDA r : PILOpens(r.bytes))
            row(k) == 1 + 20 * (k - 1)
        IN  /\ ws.title = "Extracted_Images"
            /\ Len(ws.pics) = Len(ins)
            /\ Cardinality(ws.cells) = 2 * Len(ins)
            /\ \A k \in DOMAIN ins :
                  /\ ws.pics[k].anchor = "A" \o ToStr(row(k))
                  /\ ws.pics[k].data = ins[k].bytes
                  /\ Has(ws.cells, "E" \o ToStr(row(k)))
                  /\ Get(ws.cells, "E" \o ToStr(row(k))) =
                        "Page " \o ToStr(ins[k].page) \o ", Image "
                        \o ToStr(ins[k].index + 1)
                  /\ Has(ws.cells, "E" \o ToStr(row(k) + 1))
                  /\ Get(ws.cells, "E" \o ToStr(row(k) + 1)) = ins[k].filename
            /\ \A j, k \in DOMAIN ws.pics :
                  j # k => ws.pics[j].anchor # ws.pics[k].anchor
            /\ Len(caught) = Len(images) - Len(ins)

C10_Witness ==
    /\ pc = "returned"
    /\ Len(images) = 3
    /\ PILOpens(images[1].bytes)
    /\ ~PILOpens(images[2].bytes)
    /\ PILOpens(images[3].bytes)
    /\ Len(workbook[Len(workbook)].pics) = 2

----------------------------------------------------------------------------
(* Properties of the image passes and the archive, checked under           *)
(* SpecExtract.                                                            *)

\* The record of an embedded image, as against a whole page.
IsEmbedded(r) == r.bytes.crop > 0

\* extract_images_from_pdf returned from its last statement and not from
\* its outer except clause.
ReturnedNormally == \A k \in DOMAIN caught : caught[k].line # 85

\* C4: the archive of a run round-trips: every image record's filename
\* reads back that record's bytes, the archive has one entry per record,
\* and no two records of the run share a filename.
C4_ZipRoundTrip ==
    pc = "zipped" =>
        /\ Len(zip) = Len(images)
        /\ NameList(zip) = [k \in DOMAIN images |-> images[k].filename]
        /\ \A k \in DOMAIN images :
              ZipRead(zip, images[k].filename) = images[k].bytes
        /\ \A j, k \in DOMAIN images :
              j # k => images[j].filename # images[k].filename
        /\ \A j, k \in DOMAIN zip : j # k => zip[j].name # zip[k].name

C4_Witness ==
    /\ pc = "zipped"
    /\ opts.images
    /\ opts.pages
    /\ \E i, j, k \in DOMAIN images :
          /\ IsEmbedded(images[i])
          /\ j # k
          /\ images[j].bytes = images[k].bytes

\* C5: a failure on one embedded image does not stop the others: the list
\* extract_images_from_pdf returns holds one record for every embedded image
\* whose crop and rasterization succeeded, in (page, index) order, whichever
\* other images failed; and the tables are what the table pass found.
C5_ImageFailureIsolated ==
    (pc = "pages" /\ opts.images) =>
        /\ tables = (IF opts.tables /\ tabula.ok THEN tabula.tables ELSE <<>>)
        /\ ReturnedNormally =>
              LET emb == SelectSeq(images, IsEmbedded)
              IN  /\ \A p \in DOMAIN pdf.pages :
                        \A i \in DOMAIN pdf.pages[p].imgs :
                            Cardinality({k \in DOMAIN emb :
                                            /\ emb[k].page = p
                                            /\ emb[k].index = i - 1})
                            = (IF pdf.pages[p].imgs[i] THEN 1 ELSE 0)
                  /\ \A k \in DOMAIN emb :
                        /\ emb[k].page \in DOMAIN pdf.pages
                        /\ emb[k].index + 1 \in DOMAIN pdf.pages[emb[k].page].imgs
                  /\ \A j, k \in DOMAIN emb :
                        j < k =>
                            \/ emb[j].page < emb[k].page
                            \/ /\ emb[j].page = emb[k].page
                               /\ emb[j].index < emb[k].index

C5_Witness ==
    /\ pc = "pages"
    /\ opts.images
    /\ opts.tables
    /\ tables # <<>>
    /\ ReturnedNormally
    /\ \E p \in DOMAIN pdf.pages : pdf.pages[p].imgs = <<FALSE, TRUE>>
    /\ \E k \in DOMAIN images : IsEmbedded(images[k]) /\ images[k].index = 1

\* The forms of a derived filename.
EmbeddedForm(r) ==
    r.filename = "image_page" \o ToStr(r.page) \o "_" \o ToStr(r.index)
                 \o "." \o r.ext

PageForm(r) == r.filename = "page_" \o ToStr(r.page) \o ".png"

VisualForm(r) == r.filename = "page_" \o ToStr(r.page) \o "_visual_content.png"

\* C6 as claimed: every image record, and so every entry of the archive,
\* carries a filename of the form image_page{N}_{i}.{ext} or page_{N}.png,
\* N the 1-based page number and i the image's ordinal on the page.
C6_Original ==
    /\ \A k \in DOMAIN images : EmbeddedForm(images[k]) \/ PageForm(images[k])
    /\ \A k \in DOMAIN zip :
          \E r \in {images[j] : j \in DOMAIN images} :
              /\ zip[k].name = r.filename
              /\ EmbeddedForm(r) \/ PageForm(r)

\* C6 as amended: the filename is of one of three forms, the third being
\* page_{N}_visual_content.png, which the whole-page fallback of
\* extract_images_from_pdf gives.
C6_FilenameForms ==
    /\ \A k \in DOMAIN images :
          /\ EmbeddedForm(images[k]) \/ PageForm(images[k])
                \/ VisualForm(images[k])
          /\ images[k].page >= 1
          /\ images[k].index >= 0
    /\ \A k \in DOMAIN zip :
          \E r \in {images[j] : j \in DOMAIN images} :
              /\ zip[k].name = r.filename
              /\ EmbeddedForm(r) \/ PageForm(r) \/ VisualForm(r)

C6_Witness ==
    /\ pc = "zipped"
    /\ \E i, j, k \in DOMAIN images :
          /\ EmbeddedForm(images[i])
          /\ PageForm(images[j])
          /\ VisualForm(images[k])
          /\ zip[k].name = images[k].filename

\* The whole-page records extract_images_from_pdf returned for page p.
WholePage(p) == {k \in DOMAIN images : ~IsEmbedded(images[k]) /\ images[k].page = p}

\* C9 as claimed: every page with no embedded image gets exactly one
\* whole-page record (index 0), and a page with at least one embedded image
\* gets none, even if all of its images failed.
C9_Original ==
    (pc = "pages" /\ opts.images /\ ReturnedNormally) =>
        \A p \in DOMAIN pdf.pages :
            /\ pdf.pages[p].imgs = <<>> =>
                  /\ Cardinality(WholePage(p)) = 1
                  /\ \A k \in WholePage(p) : images[k].index = 0
            /\ pdf.pages[p].imgs # <<>> => WholePage(p) = {}

\* C9 as amended: a page with no embedded image gets exactly one whole-page
\* record (index 0) when it has visual content (figures, curves or rects)
\* and its rasterization succeeds, and none otherwise; a page with at least
\* one embedded image gets none, even if all of its images failed.
C9_Fallback ==
    (pc = "pages" /\ opts.images /\ ReturnedNormally) =>
        \A p \in DOMAIN pdf.pages :
            IF pdf.pages[p].imgs = <<>> /\ pdf.pages[p].visual
               /\ pdf.pages[p].render
            THEN /\ Cardinality(WholePage(p)) = 1
                 /\ \A k \in WholePage(p) : images[k].index = 0
            ELSE WholePage(p) = {}

C9_Witness ==
    /\ pc = "pages"
    /\ opts.images
    /\ ReturnedNormally
    /\ \E p, q \in DOMAIN pdf.pages :
          /\ pdf.pages[p].imgs = <<FALSE>>
          /\ pdf.pages[p].visual
          /\ pdf.pages[p].render
          /\ WholePage(p) = {}
          /\ pdf.pages[q].imgs = <<>>
          /\ WholePage(q) # {}

=============================================================================
